---- MODULE Spec2Model ----
(***************************************************************************)
(* The sequential collaboration pipeline of startup-cofounder-ai:          *)
(* StartupCoFounderWorkflow (src/workflows/collaboration.py) runs the      *)
(* Strategy, Technical and Marketing agents (src/agents/*.py) in a fixed   *)
(* order over a shared AgentState and compiles their texts into a report.  *)
(*                                                                         *)
(* Texts are TLA+ strings, and every instruction and the report are built  *)
(* by concatenation from the literal pieces of the source's f-strings, so  *)
(* that containment, order and length are decided by the text itself.      *)
(* TLA+ strings are ASCII: the six emoji of the report's headers are       *)
(* written as their lowercase shortcodes (:rocket:, :clipboard:, :dart:,   *)
(* :computer:, :loudspeaker:, :white_check_mark:).                         *)
(*                                                                         *)
(* The Generator (ChatGroq's llm.invoke) is the environment: a call either *)
(* returns any text of Texts or raises.                                    *)
(***************************************************************************)
EXTENDS Integers, Sequences, FiniteSets, TLC

VARIABLES
    pc,       \* the graph node the run is at; "END", "returned" or "raised" after it
    in_llm,   \* TRUE while the node at pc is blocked in its agent's llm.invoke
    state,    \* the AgentState threaded through the nodes
    calls,    \* the Generator's log: one record per llm.invoke, in call order
    error,    \* <<>>, or <<node>>: the exception propagating out of analyze_startup
    result,   \* <<>>, or <<final_state>>: what analyze_startup returned
    trace,    \* the run's events so far: <<"start" | "complete", node>>
    direct,   \* <<>>, or the last standalone invocation of one agent method
    peer,     \* <<>>, or a second run of analyze_startup on the same workflow object
    app       \* <<>>, or the Streamlit page: its session state and what it shows

vars == <<pc, in_llm, state, calls, error, result, trace, direct, peer, app>>

---------------------------------------------------------------------------
(* Bounds of the model: how many sample ideas and generator texts.        *)

NumIdeas == 2

NumTexts == 4

SampleIdeas == <<"", "X", "An AI-powered meal planning app", "Y", "Z">>

SampleTexts == <<"", "S", "T", "M", "S\nT", "**Week 1-2**", "Q">>

Min(a, b) == IF a < b THEN a ELSE b

Ideas == {SampleIdeas[i] : i \in 1..Min(NumIdeas, Len(SampleIdeas))}

Texts == {SampleTexts[i] : i \in 1..Min(NumTexts, Len(SampleTexts))}

(* An optional argument (Python's str = None): <<>> is None, <<t>> is t.   *)
None == <<>>

Some(t) == <<t>>

Contexts == {None} \cup {Some(t) : t \in Texts}

(* Python's truth value of an optional string: None and "" are false.      *)
Truthy(c) == c # None /\ c[1] # ""

---------------------------------------------------------------------------
(* Substring search on strings.                                            *)

OccursAt(needle, hay, i) ==
    /\ i >= 1
    /\ i + Len(needle) - 1 <= Len(hay)
    /\ SubSeq(hay, i, i + Len(needle) - 1) = needle

Contains(hay, needle) == \E i \in 1..(Len(hay) + 1) : OccursAt(needle, hay, i)

(* The least position >= from at which needle occurs in hay, or 0.         *)
Find(needle, hay, from) ==
    LET hits == {i \in from..(Len(hay) + 1) : OccursAt(needle, hay, i)}
    IN  IF hits = {} THEN 0 ELSE CHOOSE i \in hits : \A j \in hits : i <= j

---------------------------------------------------------------------------
(* The literal pieces of the agents' instruction templates and of the      *)
(* report template, line for line as in the source.                        *)

StrategyHead ==
    "Analyze this startup idea comprehensively:\n" \o
    "\n" \o
    "**Startup Idea:** "

StrategyTail ==
    "\n" \o
    "\n" \o
    "Provide a detailed strategic analysis covering:\n" \o
    "1. Business Model & Value Proposition\n" \o
    "2. Target Market & Customer Segments\n" \o
    "3. Competitive Analysis\n" \o
    "4. Revenue Model & Pricing Strategy\n" \o
    "5. Key Success Factors\n" \o
    "6. Potential Risks & Mitigation\n" \o
    "7. Strategic Recommendations & Next Steps\n" \o
    "\n" \o
    "Be specific and actionable in your recommendations."

TechCollabHead ==
    "Based on the business strategy analysis below, provide comprehensive technical recommendations.\n" \o
    "\n" \o
    "**BUSINESS STRATEGY ANALYSIS:**\n"

TechCollabMid ==
    "\n" \o
    "\n" \o
    "**ORIGINAL STARTUP IDEA:**\n"

TechCollabTail ==
    "\n" \o
    "\n" \o
    "Now, as the CTO, provide technical analysis that ALIGNS with the business strategy above. \n" \o
    "\n" \o
    "Structure your response as:\n" \o
    "\n" \o
    "## 1. Technical Strategy Overview\n" \o
    "(How your technical approach supports the business goals)\n" \o
    "\n" \o
    "## 2. Recommended Technology Stack\n" \o
    "(Specific technologies with justifications linked to business needs)\n" \o
    "- Frontend:\n" \o
    "- Backend:\n" \o
    "- Database:\n" \o
    "- Infrastructure:\n" \o
    "- AI/ML (if applicable):\n" \o
    "\n" \o
    "## 3. System Architecture\n" \o
    "(High-level design that supports the business model)\n" \o
    "\n" \o
    "## 4. Development Roadmap\n" \o
    "(Phased approach aligned with business priorities and timeline)\n" \o
    "- Phase 1 (MVP):\n" \o
    "- Phase 2 (Scale):\n" \o
    "- Phase 3 (Advanced):\n" \o
    "\n" \o
    "## 5. Team & Resource Requirements\n" \o
    "(Based on the business strategy and timeline)\n" \o
    "\n" \o
    "## 6. Technical Risks & Mitigation\n" \o
    "(Specific to this business model and market)\n" \o
    "\n" \o
    "## 7. Cost Estimates\n" \o
    "(Infrastructure and development costs aligned with business budget)\n" \o
    "\n" \o
    "## 8. Scalability & Performance Strategy\n" \o
    "(How we'll handle growth based on business projections)\n" \o
    "\n" \o
    "**Remember:** Reference specific points from the business strategy in your recommendations!"

TechAloneHead ==
    "Analyze the technical requirements for this startup idea:\n" \o
    "\n" \o
    "**STARTUP IDEA:**\n"

TechAloneTail ==
    "\n" \o
    "\n" \o
    "Provide comprehensive technical recommendations covering:\n" \o
    "1. Technology Stack\n" \o
    "2. System Architecture\n" \o
    "3. Development Roadmap\n" \o
    "4. Resource Requirements\n" \o
    "5. Technical Risks\n" \o
    "6. Cost Estimates\n" \o
    "7. Scalability Plan"

MktFullHead ==
    "You are the CMO. Read the analyses from your CEO (Strategy) and CTO (Technical) below, then create a marketing strategy that aligns with both.\n" \o
    "\n" \o
    "**CEO'S BUSINESS STRATEGY:**\n"

MktFullMid1 ==
    "\n" \o
    "\n" \o
    "**CTO'S TECHNICAL PLAN:**\n"

MktFullMid2 ==
    "\n" \o
    "\n" \o
    "**ORIGINAL STARTUP IDEA:**\n"

MktFullTail ==
    "\n" \o
    "\n" \o
    "Now, create a comprehensive marketing strategy that:\n" \o
    "- Targets the customers identified by the CEO\n" \o
    "- Works within the budget and timeline from business strategy\n" \o
    "- Aligns with the technical platform and launch plan from CTO\n" \o
    "- Creates a cohesive go-to-market approach\n" \o
    "\n" \o
    "Structure your response as:\n" \o
    "\n" \o
    "## 1. Brand Positioning & Messaging\n" \o
    "(Based on competitive analysis and target market from strategy)\n" \o
    "\n" \o
    "## 2. Target Audience Strategy\n" \o
    "(Specific segments with acquisition tactics for each)\n" \o
    "- Primary Segment:\n" \o
    "- Secondary Segment:\n" \o
    "- Acquisition Channels for Each:\n" \o
    "\n" \o
    "## 3. Marketing Channel Strategy\n" \o
    "(Prioritized channels based on budget, platform, and timeline)\n" \o
    "- Phase 1 (Pre-Launch):\n" \o
    "- Phase 2 (Launch):\n" \o
    "- Phase 3 (Growth):\n" \o
    "\n" \o
    "## 4. Content & Creative Strategy\n" \o
    "(What content we'll create and why)\n" \o
    "\n" \o
    "## 5. Go-to-Market Timeline\n" \o
    "(Aligned with product development milestones from CTO)\n" \o
    "\n" \o
    "## 6. Budget Allocation\n" \o
    "(How to allocate marketing budget effectively)\n" \o
    "\n" \o
    "## 7. Key Messaging & Copy\n" \o
    "(Sample taglines, value propositions, ad copy)\n" \o
    "\n" \o
    "## 8. Success Metrics & KPIs\n" \o
    "(Specific metrics for this business model)\n" \o
    "\n" \o
    "## 9. Launch Campaign Plan\n" \o
    "(Detailed plan for launch week/month)\n" \o
    "\n" \o
    "**IMPORTANT:** Reference specific points from both the Strategy and Technical analyses throughout your recommendations. Show how marketing connects business goals with technical capabilities!"

MktStratHead ==
    "Based on the business strategy below, create a marketing strategy:\n" \o
    "\n" \o
    "**BUSINESS STRATEGY:**\n"

MktStratMid ==
    "\n" \o
    "\n" \o
    "**STARTUP IDEA:**\n"

MktStratTail ==
    "\n" \o
    "\n" \o
    "Create comprehensive marketing strategy that aligns with the business goals above."

MktAloneHead ==
    "Create a comprehensive marketing strategy for:\n" \o
    "\n" \o
    "**STARTUP IDEA:**\n"

MktAloneTail ==
    "\n" \o
    "\n" \o
    "Include brand positioning, target audience, channels, content strategy, and go-to-market plan."

ReportHeader ==
    "\n" \o
    "# :rocket: COMPREHENSIVE STARTUP ANALYSIS\n" \o
    "## Generated by AI Co-Founder Team\n" \o
    "\n" \o
    "---\n" \o
    "\n" \o
    "## :clipboard: STARTUP IDEA\n"

ReportStrategyHeader ==
    "\n" \o
    "\n" \o
    "---\n" \o
    "\n" \o
    "## :dart: BUSINESS STRATEGY ANALYSIS\n" \o
    "### By Strategy Agent (CEO)\n" \o
    "\n"

ReportTechnicalHeader ==
    "\n" \o
    "\n" \o
    "---\n" \o
    "\n" \o
    "## :computer: TECHNICAL ARCHITECTURE & PLAN\n" \o
    "### By Technical Agent (CTO)\n" \o
    "\n"

ReportMarketingHeader ==
    "\n" \o
    "\n" \o
    "---\n" \o
    "\n" \o
    "## :loudspeaker: MARKETING STRATEGY & GO-TO-MARKET\n" \o
    "### By Marketing Agent (CMO)\n" \o
    "\n"

ReportNextSteps ==
    "\n" \o
    "\n" \o
    "---\n" \o
    "\n" \o
    "## :white_check_mark: NEXT STEPS & ACTION ITEMS\n" \o
    "\n" \o
    "Based on the collaborative analysis above, here are the immediate priorities:\n" \o
    "\n" \o
    "1. **Week 1-2**: Validate assumptions with target customers (from Strategy)\n" \o
    "2. **Week 3-4**: Set up technical infrastructure (from Technical)\n" \o
    "3. **Week 4-6**: Begin pre-launch marketing activities (from Marketing)\n" \o
    "4. **Month 2**: Start MVP development\n" \o
    "5. **Month 3**: Beta testing and launch preparation\n" \o
    "\n" \o
    "---\n" \o
    "\n" \o
    "*This report was generated by a multi-agent AI system where each agent built upon the insights of previous agents to create a cohesive, unified strategy.*\n"

---------------------------------------------------------------------------
(* The instruction each agent method builds (its HumanMessage content).    *)

analyze_startup_idea_prompt(startup_idea) ==
    StrategyHead \o startup_idea \o StrategyTail

(* The collaborative template with its two interpolations exchanged.       *)
analyze_technical_requirements_prompt_exchanged(startup_idea, strategy_context) ==
    IF Truthy(strategy_context)
    THEN TechCollabHead \o startup_idea \o TechCollabMid
            \o strategy_context[1] \o TechCollabTail
    ELSE TechAloneHead \o startup_idea \o TechAloneTail

analyze_technical_requirements_prompt(startup_idea, strategy_context) ==
    IF Truthy(strategy_context)
    THEN TechCollabHead \o strategy_context[1] \o TechCollabMid
            \o startup_idea \o TechCollabTail
    ELSE TechAloneHead \o startup_idea \o TechAloneTail

(* The Marketing method with a fourth branch, for a technical context      *)
(* supplied without a strategy context.                                    *)
create_marketing_strategy_prompt_technical_only(startup_idea, strategy_context, technical_context) ==
    IF Truthy(strategy_context) /\ Truthy(technical_context)
    THEN MktFullHead \o strategy_context[1] \o MktFullMid1 \o technical_context[1]
            \o MktFullMid2 \o startup_idea \o MktFullTail
    ELSE IF Truthy(strategy_context)
    THEN MktStratHead \o strategy_context[1] \o MktStratMid \o startup_idea \o MktStratTail
    ELSE IF Truthy(technical_context)
    THEN "Based on the technical plan below, create a marketing strategy:\n\n"
            \o "**TECHNICAL PLAN:**\n" \o technical_context[1]
            \o MktStratMid \o startup_idea \o MktStratTail
    ELSE MktAloneHead \o startup_idea \o MktAloneTail

create_marketing_strategy_prompt(startup_idea, strategy_context, technical_context) ==
    IF Truthy(strategy_context) /\ Truthy(technical_context)
    THEN MktFullHead \o strategy_context[1] \o MktFullMid1 \o technical_context[1]
            \o MktFullMid2 \o startup_idea \o MktFullTail
    ELSE IF Truthy(strategy_context)
    THEN MktStratHead \o strategy_context[1] \o MktStratMid
            \o startup_idea \o MktStratTail
    ELSE MktAloneHead \o startup_idea \o MktAloneTail

(* One llm.invoke(messages): the agent whose system prompt leads the       *)
(* messages, the instruction, and the answer once there is one (<<>> while *)
(* the call is pending, and for good when it raised).                      *)
LlmCall(agent, prompt) == [agent |-> agent, prompt |-> prompt, response |-> <<>>]

Answered(call, response) == [call EXCEPT !.response = <<response>>]

(* The Generator's answer to a call is a message; every agent method ends  *)
(* with `return response.content`.                                         *)
Responses == {[content |-> t] : t \in Texts}

(* The agent method returning the message's printed form instead of its    *)
(* content.                                                                *)
response_content_str(response) == "content='" \o response.content \o "'"

response_content(response) == response.content

---------------------------------------------------------------------------
(* The workflow graph and the node functions' effects on the state.        *)

Nodes == {"strategy_agent", "technical_agent", "marketing_agent", "compile_report"}

EntryPoint == "strategy_agent"

(* The edges with the Technical and Marketing nodes in each other's place. *)
NextNode_marketing_first(node) ==
    CASE node = "strategy_agent"  -> "marketing_agent"
      [] node = "marketing_agent" -> "technical_agent"
      [] node = "technical_agent" -> "compile_report"
      [] node = "compile_report"  -> "END"

(* The edges with the compile node leading back to the entry point.        *)
NextNode_loop(node) ==
    CASE node = "strategy_agent"  -> "technical_agent"
      [] node = "technical_agent" -> "marketing_agent"
      [] node = "marketing_agent" -> "compile_report"
      [] node = "compile_report"  -> "strategy_agent"

NextNode(node) ==
    CASE node = "strategy_agent"  -> "technical_agent"
      [] node = "technical_agent" -> "marketing_agent"
      [] node = "marketing_agent" -> "compile_report"
      [] node = "compile_report"  -> "END"

initial_state(startup_idea) ==
    [ startup_idea       |-> startup_idea,
      strategy_analysis  |-> "",
      technical_analysis |-> "",
      marketing_strategy |-> "",
      final_report       |-> "",
      current_step       |-> "Starting" ]

(* What each node passes to its agent.                                     *)
strategy_agent_args(st) == <<st.startup_idea>>

technical_agent_args(st) == <<st.startup_idea, Some(st.strategy_analysis)>>

marketing_agent_args(st) ==
    <<st.startup_idea, Some(st.strategy_analysis), Some(st.technical_analysis)>>

(* What each node writes once its agent has returned text.                 *)
(* The Strategy node taking the agent's text for the idea from then on.    *)
run_strategy_agent_refines(st, text) ==
    [st EXCEPT !.startup_idea = text, !.strategy_analysis = text,
               !.current_step = "Strategy Complete"]

run_strategy_agent(st, text) ==
    [st EXCEPT !.strategy_analysis = text, !.current_step = "Strategy Complete"]

(* The Technical node storing its text under the Strategy key as well.     *)
run_technical_agent_clobber(st, text) ==
    [st EXCEPT !.strategy_analysis = text, !.technical_analysis = text,
               !.current_step = "Technical Complete"]

run_technical_agent(st, text) ==
    [st EXCEPT !.technical_analysis = text, !.current_step = "Technical Complete"]

(* The Marketing node storing its text and leaving current_step as it was. *)
run_marketing_agent_keeps_step(st, text) ==
    [st EXCEPT !.marketing_strategy = text]

run_marketing_agent(st, text) ==
    [st EXCEPT !.marketing_strategy = text, !.current_step = "Marketing Complete"]

(* The report written after whatever final_report already holds.           *)
final_report_appended(st) ==
    st.final_report \o ReportHeader \o st.startup_idea
        \o ReportStrategyHeader \o st.strategy_analysis
        \o ReportTechnicalHeader \o st.technical_analysis
        \o ReportMarketingHeader \o st.marketing_strategy
        \o ReportNextSteps

(* The report with the Strategy text under the Technical header as well.   *)
final_report_copied(st) ==
    ReportHeader \o st.startup_idea
        \o ReportStrategyHeader \o st.strategy_analysis
        \o ReportTechnicalHeader \o st.strategy_analysis
        \o ReportMarketingHeader \o st.marketing_strategy
        \o ReportNextSteps

(* The report built from a plain string, its placeholders left as written. *)
final_report_not_interpolated(st) ==
    ReportHeader \o "{state['startup_idea']}"
        \o ReportStrategyHeader \o "{state['strategy_analysis']}"
        \o ReportTechnicalHeader \o "{state['technical_analysis']}"
        \o ReportMarketingHeader \o "{state['marketing_strategy']}"
        \o ReportNextSteps

(* The report with the Technical and Marketing texts in each other's       *)
(* section.                                                                *)
final_report_swapped(st) ==
    ReportHeader \o st.startup_idea
        \o ReportStrategyHeader \o st.strategy_analysis
        \o ReportTechnicalHeader \o st.marketing_strategy
        \o ReportMarketingHeader \o st.technical_analysis
        \o ReportNextSteps

final_report(st) ==
    ReportHeader \o st.startup_idea
        \o ReportStrategyHeader \o st.strategy_analysis
        \o ReportTechnicalHeader \o st.technical_analysis
        \o ReportMarketingHeader \o st.marketing_strategy
        \o ReportNextSteps

(* The compile node writing the report and leaving current_step as it was. *)
compile_final_report_keeps_step(st) ==
    [st EXCEPT !.final_report = final_report(st)]

compile_final_report(st) ==
    [st EXCEPT !.final_report = final_report(st), !.current_step = "Complete"]

(* analyze_startup handing back the four output entries only.             *)
analyze_startup_return_outputs(final_state) ==
    [k \in {"strategy_analysis", "technical_analysis", "marketing_strategy",
            "final_report"} |-> final_state[k]]

(* What analyze_startup hands back: the graph's final state.               *)
analyze_startup_return(final_state) == final_state

---------------------------------------------------------------------------
(* One run of analyze_startup.                                             *)

Init ==
    /\ \E startup_idea \in Ideas : state = initial_state(startup_idea)
    /\ pc = EntryPoint
    /\ in_llm = FALSE
    /\ calls = <<>>
    /\ error = <<>>
    /\ result = <<>>
    /\ trace = <<>>
    /\ direct = <<>>
    /\ peer = <<>>
    /\ app = <<>>

(* A node enters its agent method, which builds the instruction and calls  *)
(* llm.invoke; the node blocks until the call returns or raises.           *)
AgentCall(node, agent, prompt) ==
    /\ pc = node
    /\ ~in_llm
    /\ in_llm' = TRUE
    /\ calls' = Append(calls, LlmCall(agent, prompt))
    /\ trace' = Append(trace, <<"start", node>>)
    /\ UNCHANGED <<pc, state, error, result, direct, peer, app>>

(* llm.invoke returned text: the node stores it and the graph moves on.    *)
AgentReturn(node, response, st) ==
    /\ pc = node
    /\ in_llm
    /\ in_llm' = FALSE
    /\ calls' = [calls EXCEPT ![Len(calls)] = Answered(@, response)]
    /\ state' = st
    /\ pc' = NextNode(node)
    /\ trace' = Append(trace, <<"complete", node>>)
    /\ UNCHANGED <<error, result, direct, peer, app>>

(* The Strategy node refusing an empty idea before it calls its agent.     *)
StrategyCall_validates ==
    /\ state.startup_idea # ""
    /\ AgentCall("strategy_agent", "strategy",
                 analyze_startup_idea_prompt(strategy_agent_args(state)[1]))

StrategyCall ==
    AgentCall("strategy_agent", "strategy",
              analyze_startup_idea_prompt(strategy_agent_args(state)[1]))

StrategyReturn ==
    \E response \in Responses :
        AgentReturn("strategy_agent", response,
                    run_strategy_agent(state, response_content(response)))

TechnicalCall ==
    AgentCall("technical_agent", "technical",
              analyze_technical_requirements_prompt(technical_agent_args(state)[1],
                                                    technical_agent_args(state)[2]))

TechnicalReturn ==
    \E response \in Responses :
        AgentReturn("technical_agent", response,
                    run_technical_agent(state, response_content(response)))

MarketingCall ==
    AgentCall("marketing_agent", "marketing",
              create_marketing_strategy_prompt(marketing_agent_args(state)[1],
                                               marketing_agent_args(state)[2],
                                               marketing_agent_args(state)[3]))

MarketingReturn ==
    \E response \in Responses :
        AgentReturn("marketing_agent", response,
                    run_marketing_agent(state, response_content(response)))

(* llm.invoke raised and the agent tries again: the node is back before    *)
(* its call.                                                               *)
LlmRaise_retry ==
    /\ pc \in Nodes
    /\ in_llm
    /\ in_llm' = FALSE
    /\ UNCHANGED <<pc, state, calls, error, result, trace, direct, peer, app>>

(* llm.invoke raised and the node caught it: the stage's entry stays empty *)
(* and the graph moves on to the next node.                                *)
LlmRaise_caught ==
    /\ pc \in Nodes
    /\ in_llm
    /\ in_llm' = FALSE
    /\ pc' = NextNode(pc)
    /\ trace' = Append(trace, <<"complete", pc>>)
    /\ UNCHANGED <<state, calls, error, result, direct, peer, app>>

(* llm.invoke raised: no agent, node or analyze_startup has a try/except,  *)
(* so the exception leaves analyze_startup.                                *)
LlmRaise ==
    /\ pc \in Nodes
    /\ in_llm
    /\ in_llm' = FALSE
    /\ error' = <<pc>>
    /\ pc' = "raised"
    /\ UNCHANGED <<state, calls, result, trace, direct, peer, app>>

CompileReport ==
    /\ pc = "compile_report"
    /\ ~in_llm
    /\ state' = compile_final_report(state)
    /\ pc' = NextNode("compile_report")
    /\ trace' = trace \o << <<"start", "compile_report">>, <<"complete", "compile_report">> >>
    /\ UNCHANGED <<in_llm, calls, error, result, direct, peer, app>>

AnalyzeStartupReturn ==
    /\ pc = "END"
    /\ result' = <<analyze_startup_return(state)>>
    /\ pc' = "returned"
    /\ UNCHANGED <<in_llm, state, calls, error, trace, direct, peer, app>>

(* A standalone invocation of one agent method, as its own test does: the  *)
(* method builds its instruction, makes its one llm.invoke and returns the *)
(* answer's content, or the call raises.  returned is <<>> when it raised. *)
Outcomes == {<<>>} \cup {<<r>> : r \in Responses}

Invocation(method, args, prompt, agent, outcome) ==
    [ method    |-> method,
      args      |-> args,
      llm_calls |-> <<IF outcome = <<>> THEN LlmCall(agent, prompt)
                      ELSE Answered(LlmCall(agent, prompt), outcome[1])>>,
      returned  |-> IF outcome = <<>> THEN <<>> ELSE <<response_content(outcome[1])>> ]

DirectStrategy ==
    \E startup_idea \in Ideas, outcome \in Outcomes :
        /\ direct' = <<Invocation("analyze_startup_idea", <<startup_idea>>,
                                  analyze_startup_idea_prompt(startup_idea),
                                  "strategy", outcome)>>
        /\ UNCHANGED <<pc, in_llm, state, calls, error, result, trace, peer, app>>

DirectTechnical ==
    \E startup_idea \in Ideas, strategy_context \in Contexts, outcome \in Outcomes :
        /\ direct' = <<Invocation("analyze_technical_requirements",
                                  <<startup_idea, strategy_context>>,
                                  analyze_technical_requirements_prompt(
                                      startup_idea, strategy_context),
                                  "technical", outcome)>>
        /\ UNCHANGED <<pc, in_llm, state, calls, error, result, trace, peer, app>>

DirectMarketing ==
    \E startup_idea \in Ideas, strategy_context \in Contexts,
       technical_context \in Contexts, outcome \in Outcomes :
        /\ direct' = <<Invocation("create_marketing_strategy",
                                  <<startup_idea, strategy_context, technical_context>>,
                                  create_marketing_strategy_prompt(
                                      startup_idea, strategy_context, technical_context),
                                  "marketing", outcome)>>
        /\ UNCHANGED <<pc, in_llm, state, calls, error, result, trace, peer, app>>

(* The values current_step takes.                                          *)
Steps ==
    {"Starting", "Strategy Complete", "Technical Complete", "Marketing Complete",
     "Complete"}

(* The compile node called twice, outside any run, on two states that      *)
(* carry the same idea and the same three texts: the state the graph hands *)
(* it after the Marketing node, and a state whose other entries            *)
(* (current_step, final_report) are anything the node may find there.      *)
(* returned holds the two states the node gave back.  One such pair of     *)
(* calls is made per behaviour.                                            *)
DirectCompile ==
    \E startup_idea \in Ideas, A \in Texts, B \in Texts, C \in Texts,
       step \in {"Marketing Complete", "Complete"}, recompiled \in BOOLEAN :
        LET st1 == run_marketing_agent(
                       run_technical_agent(
                           run_strategy_agent(initial_state(startup_idea), A), B), C)
            st2 == [st1 EXCEPT !.current_step = step,
                               !.final_report = IF recompiled
                                                THEN compile_final_report(st1).final_report
                                                ELSE ""]
        IN  /\ direct = <<>>
            /\ direct' = <<[ method    |-> "_compile_final_report",
                             args      |-> <<st1, st2>>,
                             llm_calls |-> <<>>,
                             returned  |-> <<compile_final_report(st1),
                                             compile_final_report(st2)>> ]>>
            /\ UNCHANGED <<pc, in_llm, state, calls, error, result, trace, peer, app>>

Next ==
    \/ StrategyCall
    \/ StrategyReturn
    \/ TechnicalCall
    \/ TechnicalReturn
    \/ MarketingCall
    \/ MarketingReturn
    \/ LlmRaise
    \/ CompileReport
    \/ AnalyzeStartupReturn

Spec == Init /\ [][Next]_vars

(* The steps the workflow takes by itself: entering an agent method,       *)
(* compiling, returning.  workflow.invoke runs the graph in one thread     *)
(* from the entry point to END, so a step that can be taken is taken.      *)
ProgramStep ==
    \/ StrategyCall
    \/ TechnicalCall
    \/ MarketingCall
    \/ CompileReport
    \/ AnalyzeStartupReturn

(* One run in which the workflow never stalls by itself.  Nothing is       *)
(* assumed of the Generator: a call may stay pending for ever.             *)
SpecLive == Init /\ [][Next]_vars /\ WF_vars(ProgramStep)

(* The agents invoked standalone, outside any run of the workflow.         *)
NextStage ==
    \/ DirectStrategy
    \/ DirectTechnical
    \/ DirectMarketing

SpecStage == Init /\ [][NextStage]_vars

(* The compile node invoked standalone.                                    *)
NextCompile == DirectCompile

SpecCompile == Init /\ [][NextCompile]_vars

(* Either one run of the workflow, or standalone invocations of the agent  *)
(* methods: the two ways the source uses the agents.                       *)
NextEither ==
    \/ direct = <<>> /\ StrategyCall
    \/ direct = <<>> /\ StrategyReturn
    \/ direct = <<>> /\ TechnicalCall
    \/ direct = <<>> /\ TechnicalReturn
    \/ direct = <<>> /\ MarketingCall
    \/ direct = <<>> /\ MarketingReturn
    \/ direct = <<>> /\ LlmRaise
    \/ direct = <<>> /\ CompileReport
    \/ direct = <<>> /\ AnalyzeStartupReturn
    \/ calls = <<>> /\ DirectStrategy
    \/ calls = <<>> /\ DirectTechnical
    \/ calls = <<>> /\ DirectMarketing

SpecEither == Init /\ [][NextEither]_vars

---------------------------------------------------------------------------
(* The Streamlit page (src/app.py).  The script runs once per interaction; *)
(* a press of the analyze button with a non-blank idea calls               *)
(* analyze_startup on the cached workflow and blocks until it returns or   *)
(* raises.  pc = "idle" between two script runs.                           *)

(* How many times the page may invoke the pipeline in one behaviour.       *)
MaxRuns == 2

(* The texts the Generator answers with where several runs are followed.   *)
FewTexts == {"", "S"}

(* What the user may have typed into the text area.                        *)
Blank == "  "

Inputs == Ideas \cup {Blank}

(* str.strip(): the text without its leading and trailing whitespace.      *)
IsSpace(c) == c \in {" ", "\t", "\n", "\r"}

Strip(s) ==
    LET kept == {i \in 1..Len(s) : ~IsSpace(SubSeq(s, i, i))}
    IN  IF kept = {} THEN ""
        ELSE SubSeq(s, CHOOSE i \in kept : \A j \in kept : i <= j,
                       CHOOSE i \in kept : \A j \in kept : j <= i)

(* st.session_state as the script initialises it.                          *)
EmptySession ==
    [ analysis_result |-> None,
      startup_idea    |-> None,
      analysis_time   |-> None ]

(* The elements the results section puts on the page: nothing unless       *)
(* analysis_result is truthy, else the success banner and the four texts   *)
(* of the stored result.                                                   *)
Display(session) ==
    IF session.analysis_result = None THEN <<>>
    ELSE LET stored == session.analysis_result[1]
         IN  << [kind |-> "success", text |-> "Complete analysis by your AI team!"],
                [kind |-> "markdown", text |-> stored.final_report],
                [kind |-> "markdown", text |-> stored.strategy_analysis],
                [kind |-> "markdown", text |-> stored.technical_analysis],
                [kind |-> "markdown", text |-> stored.marketing_strategy] >>

InitApp ==
    /\ pc = "idle"
    /\ in_llm = FALSE
    /\ state = <<>>
    /\ calls = <<>>
    /\ error = <<>>
    /\ result = <<>>
    /\ trace = <<>>
    /\ direct = <<>>
    /\ peer = <<>>
    /\ app = [session |-> EmptySession, input |-> "", shown |-> <<>>, runs |-> 0]

(* analyze_startup resuming from the state of the previous invocation when *)
(* it was given the same idea.                                             *)
AnalyzeStartupCall_resumes(startup_idea) ==
    /\ state' = IF state # <<>> /\ state.startup_idea = startup_idea
                THEN [state EXCEPT !.final_report = "", !.current_step = "Starting"]
                ELSE initial_state(startup_idea)
    /\ pc' = EntryPoint
    /\ in_llm' = FALSE
    /\ calls' = <<>>
    /\ error' = <<>>
    /\ result' = <<>>
    /\ trace' = <<>>

(* analyze_startup is entered: it builds initial_state from its argument   *)
(* alone and hands it to workflow.invoke, which starts at the entry point. *)
(* calls, error, result and trace are those of the invocation in progress. *)
AnalyzeStartupCall(startup_idea) ==
    /\ state' = initial_state(startup_idea)
    /\ pc' = EntryPoint
    /\ in_llm' = FALSE
    /\ calls' = <<>>
    /\ error' = <<>>
    /\ result' = <<>>
    /\ trace' = <<>>

(* The button is pressed on a blank idea: an error, no invocation, and the *)
(* results section as the session has it.                                  *)
AppAnalyzeBlank ==
    \E input \in Inputs :
        /\ pc = "idle"
        /\ Strip(input) = ""
        /\ app' = [app EXCEPT
                     !.input = input,
                     !.shown = <<[kind |-> "error",
                                  text |-> "Please enter a startup idea to analyze!"]>>
                               \o Display(app.session)]
        /\ UNCHANGED <<pc, in_llm, state, calls, error, result, trace, direct, peer>>

(* The input guard testing the text as typed, without stripping it.        *)
AppAnalyze_unstripped ==
    \E input \in Inputs :
        /\ pc = "idle"
        /\ input # ""
        /\ app.runs < MaxRuns
        /\ AnalyzeStartupCall(input)
        /\ app' = [app EXCEPT
                     !.input = input,
                     !.runs = @ + 1,
                     !.shown = <<[kind |-> "progress", text |-> "AI Team Working..."]>>]
        /\ UNCHANGED <<direct, peer>>

(* The button is pressed on a non-blank idea: the script shows the         *)
(* progress container and calls analyze_startup with the text as typed.    *)
AppAnalyze ==
    \E input \in Inputs :
        /\ pc = "idle"
        /\ Strip(input) # ""
        /\ app.runs < MaxRuns
        /\ AnalyzeStartupCall(input)
        /\ app' = [app EXCEPT
                     !.input = input,
                     !.runs = @ + 1,
                     !.shown = <<[kind |-> "progress", text |-> "AI Team Working..."]>>]
        /\ UNCHANGED <<direct, peer>>

(* The except branch storing what the run had produced so far.             *)
AppExcept_stores_partial ==
    /\ pc = "raised"
    /\ pc' = "idle"
    /\ app' = [app EXCEPT
                 !.session = [analysis_result |-> Some(state),
                              startup_idea    |-> Some(app.input),
                              analysis_time   |-> Some("seconds")],
                 !.shown = <<[kind |-> "error", text |-> "Error during analysis"],
                             [kind |-> "info", text |-> "Tips"]>>
                           \o Display(app.session)]
    /\ UNCHANGED <<in_llm, state, calls, error, result, trace, direct, peer>>

(* analyze_startup returned: the script stores the result, the idea and    *)
(* the elapsed time in the session, clears the progress container and      *)
(* goes on to the results section.                                         *)
AppStore ==
    /\ pc = "returned"
    /\ pc' = "idle"
    /\ LET session == [analysis_result |-> Some(result[1]),
                       startup_idea    |-> Some(app.input),
                       analysis_time   |-> Some("seconds")]
       IN  app' = [app EXCEPT !.session = session, !.shown = Display(session)]
    /\ UNCHANGED <<in_llm, state, calls, error, result, trace, direct, peer>>

(* analyze_startup raised: `except Exception` shows one st.error and one   *)
(* st.info with tips, stores nothing, and the script goes on to the        *)
(* results section.                                                        *)
AppExcept ==
    /\ pc = "raised"
    /\ pc' = "idle"
    /\ app' = [app EXCEPT
                 !.shown = <<[kind |-> "error", text |-> "Error during analysis"],
                             [kind |-> "info", text |-> "Tips"]>>
                           \o Display(app.session)]
    /\ UNCHANGED <<in_llm, state, calls, error, result, trace, direct, peer>>

(* The "Analyze New Idea" button of the results section clears the session *)
(* and reruns the script.                                                  *)
AppNewIdea ==
    /\ pc = "idle"
    /\ app.session.analysis_result # None
    /\ app' = [app EXCEPT !.session = EmptySession, !.shown = <<>>]
    /\ UNCHANGED <<pc, in_llm, state, calls, error, result, trace, direct, peer>>

(* The Generator answering with one of FewTexts.                           *)
FewAnswers ==
    \A k \in {"strategy_analysis", "technical_analysis", "marketing_strategy"} :
        state[k] \in FewTexts

NextApp ==
    \/ AppAnalyzeBlank
    \/ AppAnalyze
    \/ StrategyCall
    \/ StrategyReturn /\ FewAnswers'
    \/ TechnicalCall
    \/ TechnicalReturn /\ FewAnswers'
    \/ MarketingCall
    \/ MarketingReturn /\ FewAnswers'
    \/ LlmRaise
    \/ CompileReport
    \/ AnalyzeStartupReturn
    \/ AppStore
    \/ AppExcept
    \/ AppNewIdea

SpecApp == InitApp /\ [][NextApp]_vars

---------------------------------------------------------------------------
(* Two runs of analyze_startup in progress at once on the one workflow     *)
(* object that load_workflow caches for every session (two sessions of the *)
(* page, each in its own thread).  pc, in_llm, state, calls, error, result *)
(* and trace are those of the thread that is running; peer holds the       *)
(* suspended thread's, and the idea each of the two was called with.       *)
Running ==
    [ pc |-> pc, in_llm |-> in_llm, state |-> state, calls |-> calls,
      error |-> error, result |-> result, trace |-> trace ]

StartedRun(startup_idea) ==
    [ pc |-> EntryPoint, in_llm |-> FALSE, state |-> initial_state(startup_idea),
      calls |-> <<>>, error |-> <<>>, result |-> <<>>, trace |-> <<>> ]

InitTwoRuns ==
    \E idea1 \in Ideas, idea2 \in Ideas :
        /\ pc = EntryPoint
        /\ in_llm = FALSE
        /\ state = initial_state(idea1)
        /\ calls = <<>>
        /\ error = <<>>
        /\ result = <<>>
        /\ trace = <<>>
        /\ direct = <<>>
        /\ app = <<>>
        /\ peer = [run |-> StartedRun(idea2), given |-> <<idea1, idea2>>]

(* The switch between the threads with the record kept on the workflow     *)
(* object: both runs read and write the one state.                         *)
SwitchRun_shared_state ==
    /\ peer # <<>>
    /\ peer' = [run |-> Running, given |-> <<peer.given[2], peer.given[1]>>]
    /\ pc' = peer.run.pc
    /\ in_llm' = peer.run.in_llm
    /\ calls' = peer.run.calls
    /\ error' = peer.run.error
    /\ result' = peer.run.result
    /\ trace' = peer.run.trace
    /\ UNCHANGED <<state, direct, app>>

(* The scheduler switches threads: the running invocation is suspended     *)
(* with all it holds (initial_state and the graph's state are locals of    *)
(* the invocation), and the other one goes on from where it was.           *)
SwitchRun ==
    /\ peer # <<>>
    /\ peer' = [run |-> Running, given |-> <<peer.given[2], peer.given[1]>>]
    /\ pc' = peer.run.pc
    /\ in_llm' = peer.run.in_llm
    /\ state' = peer.run.state
    /\ calls' = peer.run.calls
    /\ error' = peer.run.error
    /\ result' = peer.run.result
    /\ trace' = peer.run.trace
    /\ UNCHANGED <<direct, app>>

NextTwoRuns ==
    \/ StrategyCall
    \/ StrategyReturn /\ FewAnswers'
    \/ TechnicalCall
    \/ TechnicalReturn /\ FewAnswers'
    \/ MarketingCall
    \/ MarketingReturn /\ FewAnswers'
    \/ LlmRaise
    \/ CompileReport
    \/ AnalyzeStartupReturn
    \/ SwitchRun

SpecTwoRuns == InitTwoRuns /\ [][NextTwoRuns]_vars

---------------------------------------------------------------------------
(* Readings of the run's history used by the properties below.             *)

Started(node) == \E i \in 1..Len(trace) : trace[i] = <<"start", node>>

Completed(node) == \E i \in 1..Len(trace) : trace[i] = <<"complete", node>>

Position(event) ==
    IF \E i \in 1..Len(trace) : trace[i] = event
    THEN CHOOSE i \in 1..Len(trace) : trace[i] = event
    ELSE 0

AgentOf(node) ==
    CASE node = "strategy_agent"  -> "strategy"
      [] node = "technical_agent" -> "technical"
      [] node = "marketing_agent" -> "marketing"

EntryOf(node) ==
    CASE node = "strategy_agent"  -> "strategy_analysis"
      [] node = "technical_agent" -> "technical_analysis"
      [] node = "marketing_agent" -> "marketing_strategy"
      [] node = "compile_report"  -> "final_report"

AgentNodes == {"strategy_agent", "technical_agent", "marketing_agent"}

(* The text the Generator returned to an agent in this run.                *)
HasAnswer(agent) ==
    \E i \in 1..Len(calls) : calls[i].agent = agent /\ calls[i].response # <<>>

AnswerTo(agent) ==
    LET i == CHOOSE i \in 1..Len(calls) :
                 calls[i].agent = agent /\ calls[i].response # <<>>
    IN  calls[i].response[1].content

(* The stages each stage declares as its predecessors, and the one order   *)
(* of starts and completions that respects them.                           *)
Predecessors(node) ==
    CASE node = "strategy_agent"  -> {}
      [] node = "technical_agent" -> {"strategy_agent"}
      [] node = "marketing_agent" -> {"strategy_agent", "technical_agent"}
      [] node = "compile_report"  -> {"strategy_agent", "technical_agent", "marketing_agent"}

PipelineOrder ==
    << <<"start", "strategy_agent">>,  <<"complete", "strategy_agent">>,
       <<"start", "technical_agent">>, <<"complete", "technical_agent">>,
       <<"start", "marketing_agent">>, <<"complete", "marketing_agent">>,
       <<"start", "compile_report">>,  <<"complete", "compile_report">> >>

---------------------------------------------------------------------------
(* C1: within a run no stage starts before each of its declared            *)
(* predecessors has completed and written its result into the shared       *)
(* record, and starts and completions are totally ordered: Strategy, then  *)
(* Technical, then Marketing, then Compile.                                *)
C1_StrictOrdering ==
    /\ Len(trace) <= Len(PipelineOrder)
    /\ \A i \in 1..Len(trace) : trace[i] = PipelineOrder[i]
    /\ \A node \in Nodes : Started(node) =>
          \A p \in Predecessors(node) :
              /\ Completed(p)
              /\ Position(<<"complete", p>>) < Position(<<"start", node>>)
              /\ HasAnswer(AgentOf(p))
              /\ state[EntryOf(p)] = AnswerTo(AgentOf(p))

(* The Marketing stage is blocked in its Generator call, after two         *)
(* predecessors that both wrote a non-empty text.                          *)
C1_Witness ==
    /\ pc = "marketing_agent"
    /\ in_llm
    /\ state.strategy_analysis # ""
    /\ state.technical_analysis # ""

---------------------------------------------------------------------------
(* A text stands in an instruction under a labeled section when it follows *)
(* a label line (every label of the templates ends in ":**") and fills the *)
(* lines up to the next line break.  An empty text needs no section.       *)
Section(text) == ":**\n" \o text \o "\n"

InContext(prompt, text) == Contains(prompt, Section(text))

(* A text that is not part of any of the texts in own.                     *)
Foreign(text, own) == text # "" /\ \A o \in own : ~Contains(o, text)

PromptTo(agent) ==
    LET i == CHOOSE i \in 1..Len(calls) : calls[i].agent = agent
    IN  calls[i].prompt

(* C2: in every successful run, whatever texts the Strategy and Technical  *)
(* generators returned, the instruction the Technical stage's Generator    *)
(* received contains the Strategy stage's output and no other stage's      *)
(* output, and the one the Marketing stage's Generator received contains   *)
(* Strategy's and Technical's outputs, in that order, and no other.        *)
C2_ContextOrdering ==
    pc = "returned" =>
        LET idea == state.startup_idea
            S    == AnswerTo("strategy")
            T    == AnswerTo("technical")
            M    == AnswerTo("marketing")
            tp   == PromptTo("technical")
            mp   == PromptTo("marketing")
        IN  /\ S # "" => InContext(tp, S)
            /\ \A other \in {T, M} : Foreign(other, {idea, S}) => ~InContext(tp, other)
            /\ S # "" => InContext(mp, S)
            /\ T # "" => InContext(mp, T)
            /\ (S # "" /\ T # "") =>
                   /\ Find(Section(S), mp, 1) # 0
                   /\ Find(Section(T), mp, Find(Section(S), mp, 1) + 1) # 0
            /\ Foreign(M, {idea, S, T}) => ~InContext(mp, M)

---------------------------------------------------------------------------
(* The idea stands in an instruction after one of the idea labels.         *)
IdeaIn(prompt, idea) ==
    \/ Contains(prompt, "Idea:** " \o idea \o "\n")
    \/ Contains(prompt, "IDEA:**\n" \o idea \o "\n")

(* C7: each stage builds a single instruction that contains the idea and,  *)
(* for every prior output that is present (supplied and non-empty), that   *)
(* output under its labeled section; for the Marketing stage in all four   *)
(* combinations of outputs supplied, its instruction carrying a strategy   *)
(* label exactly when a strategy output is present and a technical label   *)
(* exactly when a technical output is present.                             *)
C7_InstructionCarriesPresentOutputs ==
    direct # <<>> =>
        LET d      == direct[1]
            prompt == d.llm_calls[1].prompt
        IN  /\ Len(d.llm_calls) = 1
            /\ IdeaIn(prompt, d.args[1])
            /\ \A i \in 2..Len(d.args) :
                   Truthy(d.args[i]) => InContext(prompt, d.args[i][1])
            /\ d.method = "create_marketing_strategy" =>
                   /\ Contains(prompt, "BUSINESS STRATEGY:**") <=> Truthy(d.args[2])
                   /\ Contains(prompt, "TECHNICAL PLAN:**") <=> Truthy(d.args[3])

---------------------------------------------------------------------------
(* The Technical stage's labeled section wrapping a text verbatim.         *)
BusinessStrategySection(text) ==
    "**BUSINESS STRATEGY ANALYSIS:**\n" \o text \o "\n\n**ORIGINAL STARTUP IDEA:**\n"

DirectTechnicalCall ==
    direct # <<>> /\ direct[1].method = "analyze_technical_requirements"

(* C8 as stated: the Technical stage invoked directly with no prior        *)
(* context builds an instruction with no "BUSINESS STRATEGY" section, and  *)
(* invoked with any supplied text builds one with that section wrapping    *)
(* the text verbatim.                                                      *)
C8_AnySuppliedText ==
    DirectTechnicalCall =>
        LET strategy_context == direct[1].args[2]
            prompt           == direct[1].llm_calls[1].prompt
        IN  /\ strategy_context = None => ~Contains(prompt, "BUSINESS STRATEGY")
            /\ strategy_context # None =>
                   Contains(prompt, BusinessStrategySection(strategy_context[1]))

(* C8 amended: the Technical stage invoked directly with no prior context  *)
(* builds an instruction with no "BUSINESS STRATEGY" section, and invoked  *)
(* with any non-empty supplied text builds one with that section wrapping  *)
(* the text verbatim.                                                      *)
C8_NonEmptySuppliedText ==
    DirectTechnicalCall =>
        LET strategy_context == direct[1].args[2]
            prompt           == direct[1].llm_calls[1].prompt
        IN  /\ strategy_context = None => ~Contains(prompt, "BUSINESS STRATEGY")
            /\ Truthy(strategy_context) =>
                   Contains(prompt, BusinessStrategySection(strategy_context[1]))

(* The Technical stage was invoked directly with idea "X" and context "T", *)
(* and its instruction wraps "T" in the section.                           *)
C8_Witness ==
    /\ DirectTechnicalCall
    /\ direct[1].args[1] = "X"
    /\ direct[1].args[2] = Some("T")
    /\ Contains(direct[1].llm_calls[1].prompt, BusinessStrategySection("T"))

---------------------------------------------------------------------------
(* The stage whose Generator call failed, counted from 1.                  *)
StageNumber(node) ==
    CASE node = "strategy_agent"  -> 1
      [] node = "technical_agent" -> 2
      [] node = "marketing_agent" -> 3

Failed == pc = "raised"

(* Nothing past stage k has happened: k Generator calls in all, no later   *)
(* stage started, stage k and the later ones not completed and their       *)
(* entries empty, no compilation.                                          *)
NoLaterStage(k) ==
    /\ Len(calls) = k
    /\ \A node \in AgentNodes :
          StageNumber(node) > k => ~Started(node) /\ state[EntryOf(node)] = ""
    /\ \A node \in AgentNodes :
          StageNumber(node) >= k => ~Completed(node) /\ state[EntryOf(node)] = ""
    /\ ~Started("compile_report")
    /\ state.final_report = ""

(* C3: fail-fast.  A Generator failure is caught nowhere: the step in      *)
(* which llm.invoke raises ends the run with the failure propagated.  Once *)
(* failed, the run has made no Generator call past the failing stage, has  *)
(* not compiled, has returned no result, and takes no further step; a      *)
(* failure of stage 2 leaves marketing_strategy and final_report           *)
(* unproduced.                                                             *)
C3_FailFast ==
    /\ [](Failed =>
            /\ error # <<>>
            /\ error[1] \in AgentNodes
            /\ result = <<>>
            /\ NoLaterStage(StageNumber(error[1])))
    /\ [](~Failed => error = <<>>)
    /\ [](\A i \in 1..Len(calls) :
            (calls[i].response = <<>> /\ ~(in_llm /\ i = Len(calls))) => Failed)
    /\ [][~Failed]_vars

(* The Technical stage's Generator call failed after the Strategy stage    *)
(* had written a non-empty text.                                           *)
C3_Witness ==
    /\ Failed
    /\ error = <<"technical_agent">>
    /\ state.strategy_analysis # ""
    /\ Len(calls) = 2

---------------------------------------------------------------------------
(* C4: write-once.  Each of strategy_analysis, technical_analysis,         *)
(* marketing_strategy and final_report is empty until its own stage has    *)
(* completed, and no step taken after a stage has completed changes that   *)
(* stage's entry.                                                          *)
C4_WriteOnce ==
    /\ [](\A node \in Nodes : ~Completed(node) => state[EntryOf(node)] = "")
    /\ [][\A node \in Nodes :
             Completed(node) => state'[EntryOf(node)] = state[EntryOf(node)]]_vars

(* A run that returned after three stages that wrote three different       *)
(* non-empty texts.                                                        *)
C4_Witness ==
    /\ pc = "returned"
    /\ state.strategy_analysis = "S"
    /\ state.technical_analysis = "T"
    /\ state.marketing_strategy = "M"
    /\ state.final_report # ""

---------------------------------------------------------------------------
OutputKeys ==
    {"strategy_analysis", "technical_analysis", "marketing_strategy", "final_report"}

(* C5 as stated: the value analyze_startup returns on success is a mapping *)
(* with exactly the four keys strategy_analysis, technical_analysis,       *)
(* marketing_strategy and final_report, each a string.                     *)
C5_ExactlyFourKeys ==
    result # <<>> =>
        /\ DOMAIN result[1] = OutputKeys
        /\ \A k \in DOMAIN result[1] : result[1][k] \in STRING

(* C5 amended: the value analyze_startup returns on success is a mapping   *)
(* with exactly six keys, the four output keys and also startup_idea and   *)
(* current_step, each a string.                                            *)
C5_SixKeys ==
    result # <<>> =>
        /\ DOMAIN result[1] = OutputKeys \cup {"startup_idea", "current_step"}
        /\ \A k \in DOMAIN result[1] : result[1][k] \in STRING

(* analyze_startup has returned the result of a run on idea "X".           *)
C5_Witness ==
    /\ result # <<>>
    /\ result[1].startup_idea = "X"
    /\ result[1].final_report # ""

---------------------------------------------------------------------------
(* The five literal next-steps items with their header.                    *)
NextStepsBlock ==
    "NEXT STEPS & ACTION ITEMS\n\n" \o
    "Based on the collaborative analysis above, here are the immediate priorities:\n\n" \o
    "1. **Week 1-2**: Validate assumptions with target customers (from Strategy)\n" \o
    "2. **Week 3-4**: Set up technical infrastructure (from Technical)\n" \o
    "3. **Week 4-6**: Begin pre-launch marketing activities (from Marketing)\n" \o
    "4. **Month 2**: Start MVP development\n" \o
    "5. **Month 3**: Beta testing and launch preparation\n"

(* Where the parts occur in a report one after the other, none overlapping *)
(* the one before it; 0 for a part that does not occur.                    *)
FindInOrder(parts, report) ==
    LET pos[i \in 0..Len(parts)] ==
            IF i = 0 THEN 1
            ELSE LET before == pos[i - 1]
                 IN  IF before = 0 THEN 0
                     ELSE Find(parts[i], report,
                               before + (IF i = 1 THEN 0 ELSE Len(parts[i - 1])))
    IN  [i \in 1..Len(parts) |-> pos[i]]

(* C6: the compiled report contains the idea and the three stage texts     *)
(* whole, each right under its own section header, in the order idea,      *)
(* strategy, technical, marketing, followed by the fixed five-item         *)
(* next-steps block.                                                       *)
C6_ReportComplete ==
    Completed("compile_report") =>
        LET parts == << "STARTUP IDEA\n" \o state.startup_idea \o "\n",
                        "BUSINESS STRATEGY ANALYSIS\n### By Strategy Agent (CEO)\n\n"
                            \o state.strategy_analysis \o "\n",
                        "TECHNICAL ARCHITECTURE & PLAN\n### By Technical Agent (CTO)\n\n"
                            \o state.technical_analysis \o "\n",
                        "MARKETING STRATEGY & GO-TO-MARKET\n### By Marketing Agent (CMO)\n\n"
                            \o state.marketing_strategy \o "\n",
                        NextStepsBlock >>
            found == FindInOrder(parts, state.final_report)
        IN  \A i \in 1..Len(parts) : found[i] > 0

(* A report was compiled from idea "X" and the texts "S", "T" and "M".     *)
C6_Witness ==
    /\ Completed("compile_report")
    /\ state.startup_idea = "X"
    /\ state.strategy_analysis = "S"
    /\ state.technical_analysis = "T"
    /\ state.marketing_strategy = "M"
    /\ state.final_report # ""

---------------------------------------------------------------------------
StageOrder == <<"strategy", "technical", "marketing">>

(* C9: every stage invocation makes exactly one Generator call, with no    *)
(* retry, and the compile step makes none: the calls made are one per      *)
(* stage started, in the order strategy, technical, marketing; a run that  *)
(* returned made exactly three, and a run that failed at stage k exactly k.*)
C9_OneCallPerStage ==
    /\ Len(calls) = Cardinality({node \in AgentNodes : Started(node)})
    /\ Len(calls) <= Len(StageOrder)
    /\ \A i \in 1..Len(calls) : calls[i].agent = StageOrder[i]
    /\ Completed("compile_report") => Len(calls) = 3
    /\ pc = "returned" => Len(calls) = 3
    /\ Failed => Len(calls) = StageNumber(error[1])

(* A run that failed at stage 3, after three Generator calls.              *)
C9_Witness ==
    /\ Failed
    /\ error = <<"marketing_agent">>
    /\ Len(calls) = 3
    /\ calls[3].response = <<>>

---------------------------------------------------------------------------
(* The state of the pipeline's state machine, read from current_step and   *)
(* from the failure that left analyze_startup.                             *)
PipelineState ==
    IF Failed THEN "Failed"
    ELSE CASE state.current_step = "Starting"           -> "NotStarted"
           [] state.current_step = "Strategy Complete"  -> "StrategyDone"
           [] state.current_step = "Technical Complete" -> "TechnicalDone"
           [] state.current_step = "Marketing Complete" -> "MarketingDone"
           [] state.current_step = "Complete"           -> "Compiled"
           [] OTHER                                     -> "Unknown"

LinearTransitions ==
    { <<"NotStarted", "StrategyDone">>, <<"StrategyDone", "TechnicalDone">>,
      <<"TechnicalDone", "MarketingDone">>, <<"MarketingDone", "Compiled">> }

FailureTransitions ==
    { <<s, "Failed">> : s \in {"NotStarted", "StrategyDone", "TechnicalDone", "MarketingDone"} }

(* C10: the pipeline is a linear state machine.  A step that changes its   *)
(* state goes one place along NotStarted, StrategyDone, TechnicalDone,     *)
(* MarketingDone, Compiled, or from a state before Compiled to Failed; no  *)
(* step leaves Compiled or Failed.                                         *)
C10_LinearStateMachine ==
    /\ [](PipelineState # "Unknown")
    /\ [][PipelineState' # PipelineState =>
             <<PipelineState, PipelineState'>> \in LinearTransitions \cup FailureTransitions]_vars
    /\ [][(PipelineState = "Compiled" \/ PipelineState = "Failed") =>
             PipelineState' = PipelineState]_vars

(* A run that went all the way to Compiled and returned.                   *)
C10_Witness ==
    /\ PipelineState = "Compiled"
    /\ pc = "returned"
    /\ Len(trace) = Len(PipelineOrder)

---------------------------------------------------------------------------
(* The four inputs of the compile step, read from a state.                 *)
CompileInputs(st) ==
    <<st.startup_idea, st.strategy_analysis, st.technical_analysis,
      st.marketing_strategy>>

(* C11: compilation is deterministic.  Two calls of the compile step on    *)
(* states with the same idea and the same Strategy, Technical and          *)
(* Marketing texts give the same report, character for character,          *)
(* whatever the states' other entries hold; the step calls no Generator.   *)
C11_CompileDeterministic ==
    direct # <<>> =>
        LET d == direct[1]
        IN  /\ CompileInputs(d.args[1]) = CompileInputs(d.args[2])
            /\ d.returned[1].final_report = d.returned[2].final_report
            /\ Len(d.returned[1].final_report) = Len(d.returned[2].final_report)
            /\ d.llm_calls = <<>>

(* Two compilations of the same inputs from states that differ in their    *)
(* current_step and in the report they already held.                       *)
C11_Witness ==
    /\ direct # <<>>
    /\ direct[1].method = "_compile_final_report"
    /\ direct[1].args[1].current_step # direct[1].args[2].current_step
    /\ direct[1].args[1].final_report # direct[1].args[2].final_report
    /\ direct[1].returned[1].final_report # ""

---------------------------------------------------------------------------
(* How many times a text occurs in another, and where it stands as a line  *)
(* of its own.                                                             *)
Count(needle, hay) ==
    Cardinality({i \in 1..Len(hay) : OccursAt(needle, hay, i)})

Line(text) == "\n" \o text \o "\n"

(* The end-to-end scenario: a returned run on idea "X" in which the        *)
(* Generator answered "S", "T" and "M" to stages 1, 2 and 3.               *)
ScenarioXSTM ==
    /\ pc = "returned"
    /\ state.startup_idea = "X"
    /\ Len(calls) = 3
    /\ calls[1].response = <<[content |-> "S"]>>
    /\ calls[2].response = <<[content |-> "T"]>>
    /\ calls[3].response = <<[content |-> "M"]>>

(* Stage 2 was given a context with "S" in it, stage 3 one with "S" and    *)
(* "T".                                                                    *)
ScenarioContexts ==
    /\ InContext(calls[2].prompt, "S")
    /\ InContext(calls[3].prompt, "S")
    /\ InContext(calls[3].prompt, "T")

(* C14 as stated: in the scenario the returned final_report contains "X",  *)
(* "S", "T" and "M" each exactly once and in that order, and the five-item *)
(* block.                                                                  *)
C14_EachExactlyOnce ==
    ScenarioXSTM =>
        LET report == result[1].final_report
            found  == FindInOrder(<<"X", "S", "T", "M">>, report)
        IN  /\ ScenarioContexts
            /\ \A t \in {"X", "S", "T", "M"} : Count(t, report) = 1
            /\ \A i \in 1..4 : found[i] > 0
            /\ Contains(report, NextStepsBlock)

(* C14, amended: in the scenario the returned final_report contains "X",   *)
(* "S", "T" and "M" each exactly once as a line of its own, these four     *)
(* lines stand in that order, and the five-item block follows them.        *)
C14_EachOnceAsALine ==
    ScenarioXSTM =>
        LET report == result[1].final_report
            found  == FindInOrder(<<Line("X"), Line("S"), Line("T"), Line("M"),
                                    NextStepsBlock>>, report)
        IN  /\ ScenarioContexts
            /\ \A t \in {"X", "S", "T", "M"} : Count(Line(t), report) = 1
            /\ \A i \in 1..5 : found[i] > 0

(* The scenario has happened, and the letter of the idea also stands in    *)
(* the report's fixed text.                                                *)
C14_Witness ==
    /\ ScenarioXSTM
    /\ Count("X", result[1].final_report) > 1
    /\ Count(Line("X"), result[1].final_report) = 1

---------------------------------------------------------------------------
(* C16: the idea is immutable once accepted.  No step of a run changes the *)
(* startup_idea entry, so it stays the idea analyze_startup was given;     *)
(* every stage reads it (each instruction sent so far carries it), the     *)
(* compile step reads it (the report carries it as a line), and the        *)
(* returned state still holds it.                                          *)
C16_IdeaImmutable ==
    /\ [][state'.startup_idea = state.startup_idea]_vars
    /\ [](state.startup_idea \in Ideas)
    /\ [](\A i \in 1..Len(calls) : IdeaIn(calls[i].prompt, state.startup_idea))
    /\ [](Completed("compile_report") =>
            Contains(state.final_report, "STARTUP IDEA" \o Line(state.startup_idea)))
    /\ [](result # <<>> => result[1].startup_idea = state.startup_idea)

(* A returned run on a non-empty idea whose three stages wrote texts that  *)
(* differ from the idea.                                                   *)
C16_Witness ==
    /\ pc = "returned"
    /\ state.startup_idea = "X"
    /\ state.strategy_analysis = "S"
    /\ state.technical_analysis = ""
    /\ state.marketing_strategy = "T"
    /\ result # <<>>

---------------------------------------------------------------------------
(* C17: each stage returns the Generator's text unmodified and the         *)
(* pipeline stores exactly that text under the stage's key.  Once a stage  *)
(* has completed, its entry equals the content of the answer the Generator *)
(* gave to that stage's call, in length and in every character; after a    *)
(* successful run the three entries of the returned state are the answers  *)
(* to calls 1, 2 and 3.                                                    *)
C17_TextStoredUnmodified ==
    /\ \A node \in AgentNodes :
           Completed(node) =>
               /\ HasAnswer(AgentOf(node))
               /\ state[EntryOf(node)] = AnswerTo(AgentOf(node))
               /\ Len(state[EntryOf(node)]) = Len(AnswerTo(AgentOf(node)))
    /\ pc = "returned" =>
           /\ Len(calls) = 3
           /\ result[1].strategy_analysis  = calls[1].response[1].content
           /\ result[1].technical_analysis = calls[2].response[1].content
           /\ result[1].marketing_strategy = calls[3].response[1].content

(* A successful run in which the Generator returned "M" to stage 1, the    *)
(* empty text to stage 2 and "S" to stage 3.                               *)
C17_Witness ==
    /\ pc = "returned"
    /\ Len(calls) = 3
    /\ calls[1].response = <<[content |-> "M"]>>
    /\ calls[2].response = <<[content |-> ""]>>
    /\ calls[3].response = <<[content |-> "S"]>>
    /\ result[1].marketing_strategy = "S"

---------------------------------------------------------------------------
(* The last Generator call has neither returned nor raised.                *)
CallPending ==
    /\ calls # <<>>
    /\ calls[Len(calls)].response = <<>>
    /\ ~Failed

Compiled == PipelineState = "Compiled"

(* C18: termination.  The pipeline is suspended exactly while the          *)
(* Generator call of the stage it is at has not returned.  If every        *)
(* Generator call eventually returns or raises, the run eventually ends in *)
(* Compiled or Failed, and analyze_startup returns or raises; if moreover  *)
(* no call raises, the run reaches Compiled.                               *)
C18_RunTerminates ==
    /\ [](in_llm <=> CallPending)
    /\ [](in_llm => pc \in AgentNodes)
    /\ (<>[]in_llm) \/ <>(Compiled \/ Failed)
    /\ (<>[]in_llm) \/ <>(pc = "returned" \/ pc = "raised")
    /\ (<>[]in_llm) \/ (<>Failed) \/ <>(Compiled /\ pc = "returned")

(* A run suspended in the Technical stage's Generator call.                *)
C18_Witness ==
    /\ in_llm
    /\ pc = "technical_agent"
    /\ CallPending
    /\ Len(calls) = 2
    /\ ~Compiled

---------------------------------------------------------------------------
(* The run is over: analyze_startup has returned or raised.                *)
RunOver == pc = "returned" \/ pc = "raised"

(* C19: the core does not validate the idea.  A run on the empty idea is   *)
(* never refused: until it is over it always has a step to take, the only  *)
(* failure it can end in is a Generator failure of a stage whose call was  *)
(* made, its first Generator call is the Strategy stage's with the empty   *)
(* idea under the idea label, and once it has returned it has made the     *)
(* three calls and compiled the report.                                    *)
C19_EmptyIdeaIsValid ==
    state.startup_idea = "" =>
        /\ ~RunOver => ENABLED Next
        /\ Failed =>
               /\ error[1] \in AgentNodes
               /\ Len(calls) = StageNumber(error[1])
               /\ calls[Len(calls)].agent = AgentOf(error[1])
        /\ calls # <<>> =>
               /\ calls[1].agent = "strategy"
               /\ calls[1].prompt = analyze_startup_idea_prompt("")
               /\ Contains(calls[1].prompt, "**Startup Idea:** \n")
        /\ pc = "returned" =>
               /\ Len(calls) = 3
               /\ \A node \in Nodes : Completed(node)
               /\ Compiled
               /\ result[1].startup_idea = ""
               /\ result[1].final_report # ""

(* A run on the empty idea that went through the three stages and the      *)
(* compile step and returned.                                              *)
C19_Witness ==
    /\ state.startup_idea = ""
    /\ pc = "returned"
    /\ Len(calls) = 3
    /\ state.strategy_analysis = "S"
    /\ Compiled

---------------------------------------------------------------------------
(* The templates an instruction may be built from, told apart by their     *)
(* opening words and their labels.                                         *)
StartsWith(text, prefix) == OccursAt(prefix, text, 1)

NoContextMarketing(prompt, idea) ==
    /\ StartsWith(prompt, "Create a comprehensive marketing strategy for:\n")
    /\ ~Contains(prompt, "BUSINESS STRATEGY")
    /\ ~Contains(prompt, "TECHNICAL PLAN")
    /\ Contains(prompt, "**STARTUP IDEA:**" \o Line(idea))

StandaloneTechnical(prompt, idea) ==
    /\ StartsWith(prompt, "Analyze the technical requirements for this startup idea:\n")
    /\ ~Contains(prompt, "BUSINESS STRATEGY")
    /\ Contains(prompt, "**STARTUP IDEA:**" \o Line(idea))

(* What C20 says of one Marketing instruction and of one Technical         *)
(* instruction, given the arguments the method was called with.            *)
MarketingSelection(idea, strategy_context, technical_context, prompt) ==
    /\ Contains(prompt, "TECHNICAL PLAN:**") <=>
           (Truthy(strategy_context) /\ Truthy(technical_context))
    /\ ~Truthy(strategy_context) =>
           /\ NoContextMarketing(prompt, idea)
           /\ (Truthy(technical_context) /\ technical_context[1] # idea) =>
                  ~Contains(prompt, Line(technical_context[1]))

TechnicalSelection(idea, strategy_context, prompt) ==
    ~Truthy(strategy_context) => StandaloneTechnical(prompt, idea)

---------------------------------------------------------------------------
(* A record as analyze_startup builds it for an idea: the four outputs     *)
(* empty and current_step "Starting".                                      *)
FreshRecord(st, idea) ==
    /\ DOMAIN st = {"startup_idea", "strategy_analysis", "technical_analysis",
                    "marketing_strategy", "final_report", "current_step"}
    /\ st.startup_idea = idea
    /\ st.strategy_analysis = ""
    /\ st.technical_analysis = ""
    /\ st.marketing_strategy = ""
    /\ st.final_report = ""
    /\ st.current_step = "Starting"

(* C13: there is no cross-run state.  Every invocation of analyze_startup  *)
(* by the page, the first one and every re-invocation after a run that     *)
(* returned or raised, leaves the pipeline at its entry point in state     *)
(* NotStarted with a fresh record for the idea it was given and no         *)
(* Generator call made; and in every state of the invocation an entry      *)
(* whose stage has not completed in this invocation is empty, whatever an  *)
(* earlier run had written there.                                          *)
C13_FreshRecordPerInvocation ==
    /\ [][app'.runs # app.runs =>
             /\ app'.runs = app.runs + 1
             /\ FreshRecord(state', app'.input)
             /\ pc' = EntryPoint
             /\ ~in_llm'
             /\ calls' = <<>>
             /\ result' = <<>>
             /\ error' = <<>>]_vars
    /\ [](pc \in Nodes \cup {"END", "returned", "raised"} =>
             /\ state.startup_idea = app.input
             /\ \A node \in Nodes : ~Completed(node) => state[EntryOf(node)] = "")
    /\ []((pc \in Nodes /\ calls = <<>>) => PipelineState = "NotStarted")

(* The pipeline has just been invoked a second time with the idea of a     *)
(* completed run whose stored result holds a non-empty Strategy text.      *)
C13_Witness ==
    /\ app.runs = 2
    /\ pc = EntryPoint
    /\ calls = <<>>
    /\ app.session.startup_idea = Some(app.input)
    /\ app.session.analysis_result # None
    /\ app.session.analysis_result[1].strategy_analysis = "S"
    /\ FreshRecord(state, app.input)

---------------------------------------------------------------------------
(* The elements of one kind the page shows.                                *)
Shown(kind) == {i \in 1..Len(app.shown) : app.shown[i].kind = kind}

(* C15: when a run fails, the page catches the failure: the script run     *)
(* ends with exactly one error message on the page and the session as it   *)
(* was.  The stored analysis_result is at all times either None or the     *)
(* record of a run that reached Compiled, with its report; and every       *)
(* report text on the page is read from that stored record, never from the *)
(* entries a failed run had written.                                       *)
C15_FailureCaughtNoPartialReport ==
    /\ [][pc = "raised" =>
             /\ pc' = "idle"
             /\ app'.session = app.session
             /\ Cardinality({i \in 1..Len(app'.shown) : app'.shown[i].kind = "error"}) = 1
             /\ app'.shown[1].kind = "error"]_vars
    /\ [](app.session.analysis_result # None =>
             LET stored == app.session.analysis_result[1]
             IN  /\ stored.current_step = "Complete"
                 /\ stored.final_report = final_report(stored)
                 /\ Contains(stored.final_report, NextStepsBlock))
    /\ [](Shown("markdown") \cup Shown("success") # {} =>
             /\ app.session.analysis_result # None
             /\ \A i \in Shown("markdown") \cup Shown("success") :
                    \E j \in 1..Len(Display(app.session)) :
                        app.shown[i] = Display(app.session)[j])
    /\ [](Cardinality(Shown("error")) <= 1)

(* A run failed at the Technical stage after the Strategy stage had        *)
(* written "S", while the session held the result of an earlier run: the   *)
(* page shows the error and the earlier run's report.                      *)
C15_Witness ==
    /\ pc = "idle"
    /\ error = <<"technical_agent">>
    /\ state.strategy_analysis = "S"
    /\ state.final_report = ""
    /\ Shown("error") = {1}
    /\ app.session.analysis_result # None
    /\ app.session.analysis_result[1].strategy_analysis = ""
    /\ Shown("markdown") # {}

---------------------------------------------------------------------------
(* The text the Generator returned to the k-th call of a run.              *)
OwnAnswer(run, k) == run.calls[k].response[1].content

(* The instruction of a run's k-th call as built from the idea the run was *)
(* given and the run's own earlier answers.                                *)
OwnPrompt(run, given, k) ==
    CASE k = 1 -> analyze_startup_idea_prompt(given)
      [] k = 2 -> analyze_technical_requirements_prompt(given, Some(OwnAnswer(run, 1)))
      [] k = 3 -> create_marketing_strategy_prompt(given, Some(OwnAnswer(run, 1)),
                                                   Some(OwnAnswer(run, 2)))

(* A run holds nothing but its own idea and the texts generated for it.    *)
RunIsolated(run, given) ==
    /\ run.state.startup_idea = given
    /\ Len(run.calls) <= 3
    /\ \A k \in 1..Len(run.calls) : run.calls[k].prompt = OwnPrompt(run, given, k)
    /\ \A k \in 1..3 :
           LET entry == run.state[EntryOf(CHOOSE node \in AgentNodes : StageNumber(node) = k)]
           IN  IF k <= Len(run.calls) /\ run.calls[k].response # <<>>
               THEN entry = OwnAnswer(run, k)
               ELSE entry = ""
    /\ run.state.final_report # "" =>
           run.state.final_report =
               ReportHeader \o given
                   \o ReportStrategyHeader \o OwnAnswer(run, 1)
                   \o ReportTechnicalHeader \o OwnAnswer(run, 2)
                   \o ReportMarketingHeader \o OwnAnswer(run, 3)
                   \o ReportNextSteps
    /\ run.result # <<>> => run.result[1] = run.state

(* C12: two runs in progress at once on the same workflow object share no  *)
(* mutable state.  Under every interleaving of their steps, each run's     *)
(* record, instructions, report and result are made of the idea that run   *)
(* was called with and of the Generator's answers to that run's own calls, *)
(* never of the other run's.                                               *)
C12_RunsShareNoState ==
    peer # <<>> =>
        /\ RunIsolated(Running, peer.given[1])
        /\ RunIsolated(peer.run, peer.given[2])

(* Both runs are in the middle of a stage at once: one blocked in its      *)
(* Technical call, the other in its Marketing call, on different ideas and *)
(* with different Strategy texts.                                          *)
C12_Witness ==
    /\ peer # <<>>
    /\ in_llm /\ pc = "technical_agent"
    /\ peer.run.in_llm /\ peer.run.pc = "marketing_agent"
    /\ state.startup_idea = "X"
    /\ peer.run.state.startup_idea = ""
    /\ state.strategy_analysis = "S"
    /\ peer.run.state.strategy_analysis = ""
    /\ peer.run.state.technical_analysis = "S"

---------------------------------------------------------------------------
(* The stages that have completed, and what the record holds when exactly  *)
(* the first n of strategy, technical, marketing have written: their       *)
(* entries are the Generator's answers to them, the later ones still empty.*)
CompletedStages == {node \in Nodes : Completed(node)}

FirstStages(n) == {node \in AgentNodes : StageNumber(node) <= n}

WrittenUpTo(n) ==
    \A node \in AgentNodes :
        IF StageNumber(node) <= n
        THEN /\ HasAnswer(AgentOf(node))
             /\ state[EntryOf(node)] = AnswerTo(AgentOf(node))
        ELSE state[EntryOf(node)] = ""

(* C21: current_step is consistent with the record in every reachable      *)
(* state of a run.  At "Starting" no stage has completed and every output  *)
(* is empty; at "Strategy Complete" exactly the Strategy stage has         *)
(* written; at "Technical Complete" Strategy and Technical have written    *)
(* and marketing_strategy and final_report are empty; at "Marketing        *)
(* Complete" the three stages have written and final_report is empty; at   *)
(* "Complete" final_report is written.  current_step takes no other value. *)
C21_StepMarkerConsistent ==
    /\ state.current_step \in Steps
    /\ state.current_step = "Starting" =>
           /\ CompletedStages = {}
           /\ WrittenUpTo(0)
           /\ state.final_report = ""
    /\ state.current_step = "Strategy Complete" =>
           /\ CompletedStages = FirstStages(1)
           /\ WrittenUpTo(1)
           /\ state.final_report = ""
    /\ state.current_step = "Technical Complete" =>
           /\ CompletedStages = FirstStages(2)
           /\ WrittenUpTo(2)
           /\ state.marketing_strategy = ""
           /\ state.final_report = ""
    /\ state.current_step = "Marketing Complete" =>
           /\ CompletedStages = FirstStages(3)
           /\ WrittenUpTo(3)
           /\ state.final_report = ""
    /\ state.current_step = "Complete" =>
           /\ CompletedStages = Nodes
           /\ WrittenUpTo(3)
           /\ state.final_report # ""
           /\ Contains(state.final_report, NextStepsBlock)

(* The run is at "Technical Complete" with the Marketing stage's Generator *)
(* call pending: two texts written, the two later entries still empty.     *)
C21_Witness ==
    /\ state.current_step = "Technical Complete"
    /\ pc = "marketing_agent"
    /\ in_llm
    /\ state.strategy_analysis = "S"
    /\ state.technical_analysis = "T"
    /\ state.marketing_strategy = ""
    /\ state.final_report = ""

---------------------------------------------------------------------------
(* A result's report is the compilation of that result's own entries: the  *)
(* fixed headers with the result's idea and three texts between them, and  *)
(* nothing else.                                                           *)
OwnCompilation(res) ==
    /\ res.final_report =
           ReportHeader \o res.startup_idea
               \o ReportStrategyHeader \o res.strategy_analysis
               \o ReportTechnicalHeader \o res.technical_analysis
               \o ReportMarketingHeader \o res.marketing_strategy
               \o ReportNextSteps
    /\ Len(res.final_report) =
           Len(ReportHeader) + Len(res.startup_idea)
               + Len(ReportStrategyHeader) + Len(res.strategy_analysis)
               + Len(ReportTechnicalHeader) + Len(res.technical_analysis)
               + Len(ReportMarketingHeader) + Len(res.marketing_strategy)
               + Len(ReportNextSteps)

(* What C22 says of one run that returned, given the idea it was called    *)
(* with: the report compiles the result's own entries, and these are the   *)
(* run's idea and the answers to the run's own three calls.                *)
ResultSelfConsistent(run, given) ==
    run.result # <<>> =>
        LET res == run.result[1]
        IN  /\ OwnCompilation(res)
            /\ res.startup_idea = given
            /\ res.strategy_analysis  = OwnAnswer(run, 1)
            /\ res.technical_analysis = OwnAnswer(run, 2)
            /\ res.marketing_strategy = OwnAnswer(run, 3)

(* C22: in the result of every successful run, final_report is exactly the *)
(* compilation of the same result's startup_idea, strategy_analysis,       *)
(* technical_analysis and marketing_strategy: the texts in the report are  *)
(* the ones the result returns individually, each in its own section, and  *)
(* none is a text of another stage or of the other run in progress.        *)
C22_ReportOfOwnEntries ==
    peer # <<>> =>
        /\ ResultSelfConsistent(Running, peer.given[1])
        /\ ResultSelfConsistent(peer.run, peer.given[2])

(* Two runs on different ideas have both returned, with different texts in *)
(* their Strategy and Marketing entries.                                   *)
C22_Witness ==
    /\ peer # <<>>
    /\ pc = "returned"
    /\ peer.run.pc = "returned"
    /\ result[1].startup_idea = "X"
    /\ peer.run.result[1].startup_idea = ""
    /\ result[1].strategy_analysis = "S"
    /\ result[1].technical_analysis = ""
    /\ peer.run.result[1].strategy_analysis = ""
    /\ peer.run.result[1].marketing_strategy = "S"

---------------------------------------------------------------------------
(* The error the page shows for a blank idea.                              *)
BlankError ==
    [kind |-> "error", text |-> "Please enter a startup idea to analyze!"]

(* C23: the page invokes the pipeline only on a press of the analyze       *)
(* button with an idea that is non-blank after stripping whitespace, and   *)
(* no Generator call is made outside such an invocation.  A press on a     *)
(* blank idea shows an error, starts no invocation, makes no Generator     *)
(* call and leaves analysis_result, startup_idea and analysis_time of the  *)
(* session as they were; so does a run that fails; in both cases the       *)
(* results section still shows what the session had stored.  The session   *)
(* changes only when a run has returned or when the user asks for a new    *)
(* idea.                                                                   *)
C23_InvokeOnlyOnNonBlankIdea ==
    /\ [][app'.runs # app.runs =>
             /\ pc = "idle"
             /\ Strip(app'.input) # ""
             /\ state'.startup_idea = app'.input]_vars
    /\ [][calls' # calls =>
             \/ app'.runs # app.runs
             \/ pc \in Nodes /\ Strip(app.input) # "" /\ app' = app]_vars
    /\ [][(pc = "idle" /\ app'.shown # <<>> /\ app'.shown[1] = BlankError) =>
             /\ Strip(app'.input) = ""
             /\ app'.runs = app.runs
             /\ pc' = "idle"
             /\ ~in_llm'
             /\ calls' = calls
             /\ app'.session = app.session
             /\ app'.shown = <<BlankError>> \o Display(app.session)]_vars
    /\ [][pc = "raised" =>
             /\ app'.session = app.session
             /\ calls' = calls
             /\ SubSeq(app'.shown, 3, Len(app'.shown)) = Display(app.session)]_vars
    /\ [][app'.session # app.session =>
             \/ pc = "returned" /\ app'.session.analysis_result = result
             \/ pc = "idle" /\ app'.session = EmptySession]_vars
    /\ [](pc # "idle" => Strip(state.startup_idea) # "")

(* The button was pressed on a whitespace-only idea while the session held *)
(* the result of an earlier run: the page shows the error above that       *)
(* result, and the run count is still one.                                 *)
C23_Witness ==
    /\ pc = "idle"
    /\ app.input = Blank
    /\ app.runs = 1
    /\ app.shown # <<>>
    /\ app.shown[1] = BlankError
    /\ app.session.analysis_result # None
    /\ Len(app.shown) = 1 + Len(Display(app.session))
    /\ Len(app.shown) > 1

====
